---- MODULE Spec2Model ----
(***************************************************************************)
(* LFU cache with LRU tie-break (internal/lfu/lfu.go, final variant) built *)
(* on the sentinel-based intrusive doubly linked list                      *)
(* (internal/linkedlist/linkedlist.go).                                    *)
(*                                                                         *)
(* The model keeps the pointer structure of the code: every list is a pair *)
(* of dummy nodes plus a size counter, nodes carry next/prev links, the    *)
(* cache owns a list of bucket nodes whose values are lists of entry       *)
(* nodes, and the two Go maps (items, frequencies) hold node references.   *)
(***************************************************************************)
EXTENDS Integers, Sequences, FiniteSets, TLC

\* ---------------------------------------------------------------- bounds
NumKeys == 3
MaxFreq == 3
MaxCap == 2

Keys == 1..NumKeys
\* the cache stores values and never inspects them (V any): two distinct
\* values tell a stored value from the one it replaced
Values == {1, 2}
\* the zero value of V returned by a failed Get (var zero V)
ZeroValue == 0
\* longest chain a traversal may have to follow
Fuel == NumKeys + MaxFreq + 2

\* ------------------------------------------------------------ references
\* A memory is the arena of one instantiation of the generic list: `nodes`
\* node cells (1..nodes) followed by the two dummy cells of each list.  A
\* reference is the index of a cell; NIL is Go's nil pointer.  An entry node
\* is the cell of the key it is allocated for, a bucket node the cell of the
\* frequency it is allocated for.  A cell that is not allocated is all zero.
NIL == 0
\* linkedList.head and linkedList.tail of list l: its two dummy nodes
DummyHead(m, l) == m.nodes + 2 * l - 1
DummyTail(m, l) == m.nodes + 2 * l

\* f with x mapped to v (x is added to the domain when absent)
Upd(f, x, v) == [y \in (DOMAIN f) \cup {x} |-> IF y = x THEN v ELSE f[y]]
\* f without x: delete(map, x)
Del(f, x) == [y \in (DOMAIN f) \ {x} |-> f[y]]
\* map lookup m[x]; a missing key yields the zero value NIL
Lookup(f, x) == IF x \in DOMAIN f THEN f[x] ELSE NIL
Range(f) == {f[x] : x \in DOMAIN f}
Empty == [x \in {} |-> NIL]

\* -------------------------------------------------------------- the heap
\* next/prev are the link fields of the cells, size the size field of each
\* list, panic is set once a primitive has panicked.
Mem(n, l) ==
    [next  |-> [r \in 1..(n + 2 * l) |-> NIL],
     prev  |-> [r \in 1..(n + 2 * l) |-> NIL],
     size  |-> [i \in 1..l |-> 0],
     nodes |-> n,
     panic |-> FALSE]

\* &Node[T]{Value: ...}: a fresh node with nil links
AllocNode(m, n) ==
    [m EXCEPT !.next[n] = NIL, !.prev[n] = NIL]

\* linkedlist.New
ListNew(m, l) ==
    [m EXCEPT !.next[DummyHead(m, l)] = DummyTail(m, l),
              !.next[DummyTail(m, l)] = NIL,
              !.prev[DummyTail(m, l)] = DummyHead(m, l),
              !.prev[DummyHead(m, l)] = NIL,
              !.size[l] = 0]

ListHead(m, l) == IF m.size[l] = 0 THEN NIL ELSE m.next[DummyHead(m, l)]

ListTail(m, l) == IF m.size[l] = 0 THEN NIL ELSE m.prev[DummyTail(m, l)]

ListSize(m, l) == m.size[l]

Panic(m) == [m EXCEPT !.panic = TRUE]

\* insertAfter: the statements in order; dereferencing nil panics and leaves
\* the assignments made so far in place
insertAfter(m, l, after, node) ==
    IF m.panic THEN m
    ELSE IF node = NIL THEN Panic(m)
    ELSE LET m1 == [m EXCEPT !.next[node] = NIL, !.prev[node] = NIL]
         IN  IF after = NIL THEN Panic(m1)
             ELSE LET next == m1.next[after]
                      m2 == [m1 EXCEPT !.next[after] = node]
                      m3 == [m2 EXCEPT !.prev[node] = after]
                      m4 == [m3 EXCEPT !.next[node] = next]
                  IN  IF next = NIL THEN Panic(m4)
                      ELSE [m4 EXCEPT !.prev[next] = node, !.size[l] = @ + 1]

\* (mutation) remove without next.prev = prev
remove_NoBackLink(m, l, node) ==
    IF m.panic THEN m
    ELSE IF node = NIL THEN Panic(m)
    ELSE LET prev == m.prev[node]
             next == m.next[node]
         IN  IF prev = NIL THEN Panic(m)
             ELSE LET m1 == [m EXCEPT !.next[prev] = next]
                  IN  IF next = NIL THEN Panic(m1)
                      ELSE LET m3 == [m1 EXCEPT !.next[node] = NIL]
                               m4 == [m3 EXCEPT !.prev[node] = NIL]
                           IN  [m4 EXCEPT !.size[l] = @ - 1]

\* remove
remove(m, l, node) ==
    IF m.panic THEN m
    ELSE IF node = NIL THEN Panic(m)
    ELSE LET prev == m.prev[node]
             next == m.next[node]
         IN  IF prev = NIL THEN Panic(m)
             ELSE LET m1 == [m EXCEPT !.next[prev] = next]
                  IN  IF next = NIL THEN Panic(m1)
                      ELSE LET m2 == [m1 EXCEPT !.prev[next] = prev]
                               m3 == [m2 EXCEPT !.next[node] = NIL]
                               m4 == [m3 EXCEPT !.prev[node] = NIL]
                           IN  [m4 EXCEPT !.size[l] = @ - 1]

\* the nodes reachable from the dummy head by forward links, in order
RECURSIVE walkFwd(_, _, _, _)
walkFwd(m, l, node, fuel) ==
    IF node = NIL \/ node = DummyTail(m, l) \/ fuel = 0 THEN <<>>
    ELSE <<node>> \o walkFwd(m, l, m.next[node], fuel - 1)

Chain(m, l) == walkFwd(m, l, m.next[DummyHead(m, l)], Fuel)

\* (mutation) PushBack that inserts behind the dummy head
PushBack_AtFront(m, l, node) ==
    IF m.panic THEN m
    ELSE IF node = NIL THEN Panic(m)
    ELSE insertAfter(m, l, DummyHead(m, l), node)

PushBack(m, l, node) ==
    IF m.panic THEN m
    ELSE IF node = NIL THEN Panic(m)
    ELSE insertAfter(m, l, m.prev[DummyTail(m, l)], node)

\* (mutation) PushFront that inserts before the dummy tail
PushFront_AtBack(m, l, node) ==
    IF m.panic THEN m
    ELSE IF node = NIL THEN Panic(m)
    ELSE insertAfter(m, l, m.prev[DummyTail(m, l)], node)

PushFront(m, l, node) ==
    IF m.panic THEN m
    ELSE IF node = NIL THEN Panic(m)
    ELSE insertAfter(m, l, DummyHead(m, l), node)

PushAfter(m, l, after, node) ==
    IF m.panic THEN m
    ELSE IF after = NIL \/ node = NIL THEN Panic(m)
    ELSE insertAfter(m, l, after, node)

Pop(m, l, node) ==
    IF m.panic THEN m
    ELSE IF node = NIL THEN Panic(m)
    ELSE remove(m, l, node)

\* FromTail: node := l.Tail(); node != nil && node != l.head; node = node.prev
RECURSIVE walkBack(_, _, _, _)
walkBack(m, l, node, fuel) ==
    IF node = NIL \/ node = DummyHead(m, l) \/ fuel = 0 THEN <<>>
    ELSE <<node>> \o walkBack(m, l, m.prev[node], fuel - 1)

\* (mutation) FromTail that starts at the head and follows the forward links
FromTail_Forward(m, l) == IF m.size[l] = 0 THEN <<>> ELSE Chain(m, l)

FromTail(m, l) == walkBack(m, l, ListTail(m, l), Fuel)

SeqSet(s) == {s[i] : i \in 1..Len(s)}

\* ------------------------------------------------------------- the cache
DefaultCapacity == 5
ErrKeyNotFound == "ErrKeyNotFound"
NoError == "nil"
\* the cache's only bucket list (the field сacheImpl.cache)
CacheList == 1
\* the Value of an entry cell that is not allocated
NoElem == [key |-> 0, value |-> 0, freq |-> 0]

\* A cache value c is the struct сacheImpl together with the heap it points
\* into:
\*   capacity, size, items, frequencies   the struct's fields
\*   cache    memory of the bucket nodes and of the bucket list
\*   bucket   Value of each bucket node: the entry list it holds
\*   lists    memory of the entry nodes and of the entry lists
\*   elem     Value of each entry node: the cacheElement {key, value, freq}
\*   panic    the cache itself has panicked
Panicked(c) == c.panic \/ c.cache.panic \/ c.lists.panic

New(args) ==
    LET lfuCapacity == IF Len(args) > 0 THEN args[1] ELSE DefaultCapacity
    IN  [capacity    |-> lfuCapacity,
         size        |-> 0,
         items       |-> Empty,
         frequencies |-> Empty,
         cache       |-> ListNew(Mem(MaxFreq, 1), CacheList),
         bucket      |-> [b \in 1..MaxFreq |-> 0],
         lists       |-> Mem(NumKeys, MaxFreq),
         elem        |-> [n \in 1..NumKeys |-> NoElem],
         panic       |-> Len(args) > 0 /\ args[1] < 0]

\* (mutation) pushToFrequency that appends every new bucket above frequency 1
\* at the tail of the bucket list
pushToFrequency_AtTail(c, frequency, elementNode) ==
    IF Panicked(c) THEN c
    ELSE IF frequency \in DOMAIN c.frequencies
    THEN LET frequencyList == c.bucket[c.frequencies[frequency]]
         IN  [c EXCEPT !.lists = PushBack(@, frequencyList, elementNode)]
    ELSE LET frequencyList == frequency
             frequencyNode == frequency
             Register(c2) ==
                 IF Panicked(c2) THEN c2
                 ELSE [c2 EXCEPT !.frequencies = Upd(@, frequency, frequencyNode),
                                 !.lists = PushBack(@, frequencyList, elementNode)]
             Link(c1) ==
                 IF frequency = 1
                 THEN Register([c1 EXCEPT !.cache = PushFront(@, CacheList, frequencyNode)])
                 ELSE Register([c1 EXCEPT !.cache = PushBack(@, CacheList, frequencyNode)])
         IN  Link([c EXCEPT !.lists = ListNew(@, frequencyList),
                            !.cache = AllocNode(@, frequencyNode),
                            !.bucket[frequencyNode] = frequencyList])

\* (In the operators below a statement's result is handed on as the
\* parameter of a local operator, so that it is computed once.)
pushToFrequency(c, frequency, elementNode) ==
    IF Panicked(c) THEN c
    ELSE IF frequency \in DOMAIN c.frequencies
    THEN LET frequencyList == c.bucket[c.frequencies[frequency]]
         IN  [c EXCEPT !.lists = PushBack(@, frequencyList, elementNode)]
    ELSE LET frequencyList == frequency
             frequencyNode == frequency
             \* l.frequencies[frequency] = frequencyNode; frequencyList.PushBack
             Register(c2) ==
                 IF Panicked(c2) THEN c2
                 ELSE [c2 EXCEPT !.frequencies = Upd(@, frequency, frequencyNode),
                                 !.lists = PushBack(@, frequencyList, elementNode)]
             \* l.cache.PushFront / l.cache.PushAfter
             Link(c1) ==
                 IF frequency = 1
                 THEN Register([c1 EXCEPT !.cache = PushFront(@, CacheList, frequencyNode)])
                 ELSE Register([c1 EXCEPT !.cache =
                                   PushAfter(@, CacheList,
                                             Lookup(c1.frequencies, frequency - 1),
                                             frequencyNode)])
         IN  Link([c EXCEPT !.lists = ListNew(@, frequencyList),
                            !.cache = AllocNode(@, frequencyNode),
                            !.bucket[frequencyNode] = frequencyList])

\* (mutation) addNewEntry that leaves freq of the new element at its zero value
addNewEntry_NoFreq(c, key, value) ==
    IF Panicked(c) THEN c
    ELSE LET newElementNode == key
             Record(c2) ==
                 IF Panicked(c2) THEN c2
                 ELSE [c2 EXCEPT !.items = Upd(@, key, newElementNode),
                                 !.size = @ + 1]
         IN  Record(pushToFrequency(
                        [c EXCEPT !.lists = AllocNode(@, newElementNode),
                                  !.elem[newElementNode] =
                                      [key |-> key, value |-> value, freq |-> 0]],
                        1, newElementNode))

\* (mutation) addNewEntry without l.size++
addNewEntry_NoCount(c, key, value) ==
    IF Panicked(c) THEN c
    ELSE LET newElementNode == key
             Record(c2) ==
                 IF Panicked(c2) THEN c2
                 ELSE [c2 EXCEPT !.items = Upd(@, key, newElementNode)]
         IN  Record(pushToFrequency(
                        [c EXCEPT !.lists = AllocNode(@, newElementNode),
                                  !.elem[newElementNode] =
                                      [key |-> key, value |-> value, freq |-> 1]],
                        1, newElementNode))

addNewEntry(c, key, value) ==
    IF Panicked(c) THEN c
    ELSE LET newElementNode == key
             \* l.items[key] = newElementNode; l.size++
             Record(c2) ==
                 IF Panicked(c2) THEN c2
                 ELSE [c2 EXCEPT !.items = Upd(@, key, newElementNode),
                                 !.size = @ + 1]
         IN  Record(pushToFrequency(
                        [c EXCEPT !.lists = AllocNode(@, newElementNode),
                                  !.elem[newElementNode] =
                                      [key |-> key, value |-> value, freq |-> 1]],
                        1, newElementNode))

\* (mutation) incrementFrequency without elementNode.Value.freq++
incrementFrequency_NoBump(c, elementNode) ==
    IF Panicked(c) THEN c
    ELSE LET frequency == c.elem[elementNode].freq
             frequencyNode == Lookup(c.frequencies, frequency)
             frequencyList == c.bucket[frequencyNode]
             Forget(c4) ==
                 IF Panicked(c4) THEN c4
                 ELSE [c4 EXCEPT !.frequencies = Del(@, frequency)]
             DropEmpty(c3) ==
                 IF Panicked(c3) THEN c3
                 ELSE IF ListSize(c3.lists, frequencyList) = 0
                 THEN Forget([c3 EXCEPT !.cache = Pop(@, CacheList, frequencyNode)])
                 ELSE c3
             Bump(c1) ==
                 IF Panicked(c1) THEN c1
                 ELSE DropEmpty(pushToFrequency(c1, c1.elem[elementNode].freq,
                                                elementNode))
         IN  IF frequencyNode = NIL THEN [c EXCEPT !.panic = TRUE]
             ELSE Bump([c EXCEPT !.lists = Pop(@, frequencyList, elementNode)])

\* (mutation) incrementFrequency that leaves the emptied bucket in place
incrementFrequency_KeepsEmpty(c, elementNode) ==
    IF Panicked(c) THEN c
    ELSE LET frequency == c.elem[elementNode].freq
             frequencyNode == Lookup(c.frequencies, frequency)
             frequencyList == c.bucket[frequencyNode]
             Bump(c1) ==
                 IF Panicked(c1) THEN c1
                 ELSE pushToFrequency(
                          [c1 EXCEPT !.elem[elementNode].freq = @ + 1],
                          c1.elem[elementNode].freq + 1, elementNode)
         IN  IF frequencyNode = NIL THEN [c EXCEPT !.panic = TRUE]
             ELSE Bump([c EXCEPT !.lists = Pop(@, frequencyList, elementNode)])

\* (mutation) incrementFrequency that pushes the node back to the bucket of
\* the frequency it had
incrementFrequency_SameBucket(c, elementNode) ==
    IF Panicked(c) THEN c
    ELSE LET frequency == c.elem[elementNode].freq
             frequencyNode == Lookup(c.frequencies, frequency)
             frequencyList == c.bucket[frequencyNode]
             Bump(c1) ==
                 IF Panicked(c1) THEN c1
                 ELSE pushToFrequency(
                          [c1 EXCEPT !.elem[elementNode].freq = @ + 1],
                          c1.elem[elementNode].freq, elementNode)
         IN  IF frequencyNode = NIL THEN [c EXCEPT !.panic = TRUE]
             ELSE Bump([c EXCEPT !.lists = Pop(@, frequencyList, elementNode)])

\* (mutation) incrementFrequency that deletes the emptied bucket before it
\* pushes the node to its new frequency
incrementFrequency_DropsFirst(c, elementNode) ==
    IF Panicked(c) THEN c
    ELSE LET frequency == c.elem[elementNode].freq
             frequencyNode == Lookup(c.frequencies, frequency)
             frequencyList == c.bucket[frequencyNode]
             Bump(c1) ==
                 IF Panicked(c1) THEN c1
                 ELSE pushToFrequency(
                          [c1 EXCEPT !.elem[elementNode].freq = @ + 1],
                          c1.elem[elementNode].freq + 1, elementNode)
             Forget(c4) ==
                 IF Panicked(c4) THEN c4
                 ELSE Bump([c4 EXCEPT !.frequencies = Del(@, frequency)])
             DropEmpty(c3) ==
                 IF Panicked(c3) THEN c3
                 ELSE IF ListSize(c3.lists, frequencyList) = 0
                 THEN Forget([c3 EXCEPT !.cache = Pop(@, CacheList, frequencyNode)])
                 ELSE Bump(c3)
         IN  IF frequencyNode = NIL THEN [c EXCEPT !.panic = TRUE]
             ELSE DropEmpty([c EXCEPT !.lists = Pop(@, frequencyList, elementNode)])

incrementFrequency(c, elementNode) ==
    IF Panicked(c) THEN c
    ELSE LET frequency == c.elem[elementNode].freq
             frequencyNode == Lookup(c.frequencies, frequency)
             frequencyList == c.bucket[frequencyNode]
             \* delete(l.frequencies, frequency)
             Forget(c4) ==
                 IF Panicked(c4) THEN c4
                 ELSE [c4 EXCEPT !.frequencies = Del(@, frequency)]
             \* delete empty frequency list
             DropEmpty(c3) ==
                 IF Panicked(c3) THEN c3
                 ELSE IF ListSize(c3.lists, frequencyList) = 0
                 THEN Forget([c3 EXCEPT !.cache = Pop(@, CacheList, frequencyNode)])
                 ELSE c3
             \* elementNode.Value.freq++; l.pushToFrequency(...)
             Bump(c1) ==
                 IF Panicked(c1) THEN c1
                 ELSE DropEmpty(pushToFrequency(
                                    [c1 EXCEPT !.elem[elementNode].freq = @ + 1],
                                    c1.elem[elementNode].freq + 1, elementNode))
         IN  IF frequencyNode = NIL THEN [c EXCEPT !.panic = TRUE]
             ELSE Bump([c EXCEPT !.lists = Pop(@, frequencyList, elementNode)])

\* (mutation) evictLFU that takes the tail of the bucket list
evictLFU_LastBucket(c) ==
    IF Panicked(c) THEN c
    ELSE LET frequencyNode == ListTail(c.cache, CacheList)
             frequencyList == c.bucket[frequencyNode]
             elementNode == ListHead(c.lists, frequencyList)
             Shrink(c3) ==
                 IF Panicked(c3) THEN c3 ELSE [c3 EXCEPT !.size = @ - 1]
             Forget(c4) ==
                 IF Panicked(c4) THEN c4
                 ELSE [c4 EXCEPT !.frequencies = Del(@, c4.elem[elementNode].freq)]
             DropEmpty(c2) ==
                 IF Panicked(c2) THEN c2
                 ELSE IF ListSize(c2.lists, frequencyList) = 0
                 THEN Shrink(Forget([c2 EXCEPT !.cache = Pop(@, CacheList, frequencyNode)]))
                 ELSE Shrink(c2)
         IN  IF frequencyNode = NIL THEN [c EXCEPT !.panic = TRUE]
             ELSE IF elementNode = NIL THEN [c EXCEPT !.panic = TRUE]
             ELSE DropEmpty([c EXCEPT !.items = Del(@, c.elem[elementNode].key),
                                      !.lists = Pop(@, frequencyList, elementNode)])

\* (mutation) evictLFU without delete(l.items, elementNode.Value.key)
evictLFU_KeepsItem(c) ==
    IF Panicked(c) THEN c
    ELSE LET frequencyNode == ListHead(c.cache, CacheList)
             frequencyList == c.bucket[frequencyNode]
             elementNode == ListHead(c.lists, frequencyList)
             Shrink(c3) ==
                 IF Panicked(c3) THEN c3 ELSE [c3 EXCEPT !.size = @ - 1]
             Forget(c4) ==
                 IF Panicked(c4) THEN c4
                 ELSE [c4 EXCEPT !.frequencies = Del(@, c4.elem[elementNode].freq)]
             DropEmpty(c2) ==
                 IF Panicked(c2) THEN c2
                 ELSE IF ListSize(c2.lists, frequencyList) = 0
                 THEN Shrink(Forget([c2 EXCEPT !.cache = Pop(@, CacheList, frequencyNode)]))
                 ELSE Shrink(c2)
         IN  IF frequencyNode = NIL THEN [c EXCEPT !.panic = TRUE]
             ELSE IF elementNode = NIL THEN [c EXCEPT !.panic = TRUE]
             ELSE DropEmpty([c EXCEPT !.lists = Pop(@, frequencyList, elementNode)])

evictLFU(c) ==
    IF Panicked(c) THEN c
    ELSE LET frequencyNode == ListHead(c.cache, CacheList)
             frequencyList == c.bucket[frequencyNode]
             elementNode == ListHead(c.lists, frequencyList)
             \* l.size--
             Shrink(c3) ==
                 IF Panicked(c3) THEN c3 ELSE [c3 EXCEPT !.size = @ - 1]
             \* delete(l.frequencies, elementNode.Value.freq)
             Forget(c4) ==
                 IF Panicked(c4) THEN c4
                 ELSE [c4 EXCEPT !.frequencies = Del(@, c4.elem[elementNode].freq)]
             \* delete empty frequency node
             DropEmpty(c2) ==
                 IF Panicked(c2) THEN c2
                 ELSE IF ListSize(c2.lists, frequencyList) = 0
                 THEN Shrink(Forget([c2 EXCEPT !.cache = Pop(@, CacheList, frequencyNode)]))
                 ELSE Shrink(c2)
         IN  IF frequencyNode = NIL THEN [c EXCEPT !.panic = TRUE]
             ELSE IF elementNode = NIL THEN [c EXCEPT !.panic = TRUE]
             ELSE DropEmpty([c EXCEPT !.items = Del(@, c.elem[elementNode].key),
                                      !.lists = Pop(@, frequencyList, elementNode)])

\* (mutation) Get that returns the value without incrementFrequency
Get_NoIncrement(c, key) ==
    IF key \notin DOMAIN c.items
    THEN [self |-> c, ret |-> ZeroValue, err |-> ErrKeyNotFound]
    ELSE [self |-> c, ret |-> c.elem[c.items[key]].value, err |-> NoError]

\* (mutation) Get that inserts the key it misses
Get_InsertsOnMiss(c, key) ==
    IF key \notin DOMAIN c.items
    THEN [self |-> IF c.size < c.capacity THEN addNewEntry(c, key, ZeroValue) ELSE c,
          ret |-> ZeroValue, err |-> ErrKeyNotFound]
    ELSE LET elementNode == c.items[key]
             Result(c1) ==
                 [self |-> c1, ret |-> c1.elem[elementNode].value, err |-> NoError]
         IN  Result(incrementFrequency(c, elementNode))

\* Get returns the cache after the call, the value and the error
Get(c, key) ==
    IF key \notin DOMAIN c.items
    THEN [self |-> c, ret |-> ZeroValue, err |-> ErrKeyNotFound]
    ELSE LET elementNode == c.items[key]
             Result(c1) ==
                 [self |-> c1, ret |-> c1.elem[elementNode].value, err |-> NoError]
         IN  Result(incrementFrequency(c, elementNode))

\* (mutation) Put without the eviction of a full cache
Put_NoEvict(c, key, value) ==
    IF c.capacity = 0 THEN c
    ELSE IF key \in DOMAIN c.items
    THEN LET elementNode == c.items[key]
         IN  incrementFrequency([c EXCEPT !.elem[elementNode].value = value],
                                elementNode)
    ELSE addNewEntry(c, key, value)

\* (mutation) Put that leaves the value of an existing key as it is
Put_KeepsValue(c, key, value) ==
    IF c.capacity = 0 THEN c
    ELSE IF key \in DOMAIN c.items
    THEN incrementFrequency(c, c.items[key])
    ELSE IF c.size = c.capacity
    THEN addNewEntry(evictLFU(c), key, value)
    ELSE addNewEntry(c, key, value)

\* (mutation) Put without the capacity == 0 return
Put_NoZeroCheck(c, key, value) ==
    IF key \in DOMAIN c.items
    THEN LET elementNode == c.items[key]
         IN  incrementFrequency([c EXCEPT !.elem[elementNode].value = value],
                                elementNode)
    ELSE IF c.size = c.capacity
    THEN addNewEntry(evictLFU(c), key, value)
    ELSE addNewEntry(c, key, value)

\* (mutation) Put that makes room before it looks the key up
Put_EvictsFirst(c, key, value) ==
    IF c.capacity = 0 THEN c
    ELSE LET d == IF c.size = c.capacity THEN evictLFU(c) ELSE c
         IN  IF key \in DOMAIN d.items
             THEN LET elementNode == d.items[key]
                  IN  incrementFrequency(
                          [d EXCEPT !.elem[elementNode].value = value],
                          elementNode)
             ELSE addNewEntry(d, key, value)

Put(c, key, value) ==
    IF c.capacity = 0 THEN c
    ELSE IF key \in DOMAIN c.items
    THEN LET elementNode == c.items[key]
         IN  incrementFrequency([c EXCEPT !.elem[elementNode].value = value],
                                elementNode)
    ELSE IF c.size = c.capacity
    THEN addNewEntry(evictLFU(c), key, value)
    ELSE addNewEntry(c, key, value)

\* All: the pairs a full traversal yields, in order
All(c) ==
    LET pairsOf(frequencyNode) ==
            LET nodes == FromTail(c.lists, c.bucket[frequencyNode])
            IN  [i \in 1..Len(nodes) |->
                    <<c.elem[nodes[i]].key, c.elem[nodes[i]].value>>]
        bucketNodes == FromTail(c.cache, CacheList)
        F[i \in 0..Len(bucketNodes)] ==
            IF i = 0 THEN <<>> ELSE F[i - 1] \o pairsOf(bucketNodes[i])
    IN  F[Len(bucketNodes)]

Size(c) == c.size

Capacity(c) == c.capacity

GetKeyFrequency(c, key) ==
    IF key \notin DOMAIN c.items
    THEN [ret |-> 0, err |-> ErrKeyNotFound]
    ELSE [ret |-> c.elem[c.items[key]].freq, err |-> NoError]

\* ------------------------------------------------------ garbage collection
\* Go reclaims what is no longer referenced: a node that is neither linked
\* into a list nor held by a map, and the list of a reclaimed bucket node,
\* go back to unallocated cells.
Linked(m, n) == m.next[n] # NIL \/ m.prev[n] # NIL

Collect(c) ==
    LET liveB == {b \in 1..MaxFreq : Linked(c.cache, b)} \cup Range(c.frequencies)
        liveL == {c.bucket[b] : b \in liveB}
        liveE == {n \in 1..NumKeys : Linked(c.lists, n)} \cup Range(c.items)
        deadD == UNION {{DummyHead(c.lists, l), DummyTail(c.lists, l)} :
                           l \in (1..MaxFreq) \ liveL}
    IN  [c EXCEPT !.bucket = [b \in 1..MaxFreq |-> IF b \in liveB THEN @[b] ELSE 0],
                  !.lists.next = [r \in DOMAIN @ |-> IF r \in deadD THEN NIL ELSE @[r]],
                  !.lists.prev = [r \in DOMAIN @ |-> IF r \in deadD THEN NIL ELSE @[r]],
                  !.lists.size = [l \in 1..MaxFreq |-> IF l \in liveL THEN @[l] ELSE 0],
                  !.elem = [n \in 1..NumKeys |-> IF n \in liveE THEN @[n] ELSE NoElem]]

\* ------------------------------------------------------------- the state
VARIABLES
    capacity,      \* сacheImpl.capacity
    size,          \* сacheImpl.size
    items,         \* сacheImpl.items: key -> entry node
    frequencies,   \* сacheImpl.frequencies: frequency -> bucket node
    cache,         \* сacheImpl.cache: the bucket list and its nodes
    bucket,        \* Value of the bucket nodes
    lists,         \* the entry lists and their nodes
    elem,          \* Value of the entry nodes
    panicked,      \* a call has panicked: the program is gone
    built,         \* the capacity the cache was constructed with
    last,          \* the last call made: its arguments and what it returned
    touch          \* for each frequency, the keys in the cache that were
                   \* touched that many times, least recently touched first

vars == <<capacity, size, items, frequencies, cache, bucket, lists, elem,
          panicked, built, last, touch>>

\* the receiver l of the methods
Self ==
    [capacity |-> capacity, size |-> size, items |-> items,
     frequencies |-> frequencies, cache |-> cache, bucket |-> bucket,
     lists |-> lists, elem |-> elem, panic |-> panicked]

\* the receiver after a call that left it as c
Settled(d) ==
        /\ capacity' = d.capacity
        /\ size' = d.size
        /\ items' = d.items
        /\ frequencies' = d.frequencies
        /\ cache' = d.cache
        /\ bucket' = d.bucket
        /\ lists' = d.lists
        /\ elem' = d.elem
        /\ panicked' = Panicked(d)

Becomes(c) == Settled(IF Panicked(c) THEN c ELSE Collect(c))

CacheVars == <<capacity, size, items, frequencies, cache, bucket, lists, elem, panicked>>

\* s without the keys of S, order kept
Without(s, S) == SelectSeq(s, LAMBDA x : x \notin S)

\* A call as `last` records it: the operation, its arguments, what it
\* returned, the entries <<key, frequency>> it removed from the cache, and
\* whether its key is one the call before removed with a frequency above 1.
Call(op, key, value, ret, err) ==
    [op |-> op, key |-> key, value |-> value, ret |-> ret, err |-> err,
     evicted |-> {}, again |-> FALSE]

\* how often key has been touched since it entered the cache (0: not in it)
Count(key) ==
    IF \E f \in 1..MaxFreq : key \in SeqSet(touch[f])
    THEN CHOOSE f \in 1..MaxFreq : key \in SeqSet(touch[f])
    ELSE 0

\* touch after a touch of key, its f-th, by a call that removed the keys gone
Touched(key, f, gone) ==
    [g \in 1..MaxFreq |->
        IF g = f THEN Append(Without(touch[g], {key} \cup gone), key)
        ELSE Without(touch[g], {key} \cup gone)]

\* the entries of the cache that are no longer in c
Gone(c) ==
    {<<k, elem[items[k]].freq>> : k \in DOMAIN items \ DOMAIN c.items}

\* the capacities New is called with
CapArgs == {<<n>> : n \in 0..MaxCap}

Init ==
    \E args \in CapArgs :
        LET c == New(args)
        IN  /\ capacity = c.capacity
            /\ size = c.size
            /\ items = c.items
            /\ frequencies = c.frequencies
            /\ cache = c.cache
            /\ bucket = c.bucket
            /\ lists = c.lists
            /\ elem = c.elem
            /\ panicked = Panicked(c)
            /\ built = args[1]
            /\ last = Call("New", 0, 0, 0, NoError)
            /\ touch = [f \in 1..MaxFreq |-> <<>>]

\* frequencies are unbounded in the code; the model stops counting at MaxFreq
CanTouch(key) == key \in DOMAIN items => elem[items[key]].freq < MaxFreq

DoGet(key) ==
    /\ ~Panicked(Self)
    /\ CanTouch(key)
    /\ LET Returns(r) ==
               /\ Becomes(r.self)
               /\ last' = Call("Get", key, 0, r.ret, r.err)
               /\ touch' = IF r.err = NoError
                           THEN Touched(key, Count(key) + 1, {})
                           ELSE touch
               /\ UNCHANGED built
       IN  Returns(Get(Self, key))

DoPut(key, value) ==
    /\ ~Panicked(Self)
    /\ CanTouch(key)
    /\ LET Returns(c) ==
               /\ Becomes(c)
               /\ last' = [Call("Put", key, value, 0, NoError)
                              EXCEPT !.evicted = Gone(c),
                                     !.again = \E e \in last.evicted :
                                                  e[1] = key /\ e[2] > 1]
               /\ touch' = IF capacity = 0 THEN touch
                           ELSE Touched(key, Count(key) + 1,
                                        {e[1] : e \in Gone(c)})
               /\ UNCHANGED built
       IN  Returns(Put(Self, key, value))

\* (mutation) GetKeyFrequency that counts the lookup as a use of the key
DoGetKeyFrequency_Counts(key) ==
    /\ ~Panicked(Self)
    /\ CanTouch(key)
    /\ LET Returns(r) ==
               /\ last' = Call("GetKeyFrequency", key, 0, r.ret, r.err)
               /\ IF r.err = NoError
                  THEN Becomes(incrementFrequency(Self, items[key]))
                  ELSE UNCHANGED CacheVars
       IN  Returns(GetKeyFrequency(Self, key))
    /\ UNCHANGED <<built, touch>>

DoGetKeyFrequency(key) ==
    /\ ~Panicked(Self)
    /\ LET Returns(r) == last' = Call("GetKeyFrequency", key, 0, r.ret, r.err)
       IN  Returns(GetKeyFrequency(Self, key))
    /\ UNCHANGED <<CacheVars, built, touch>>

\* the consumer of All takes every pair, or stops after any number of them
DoAll ==
    /\ ~Panicked(Self)
    /\ LET Yields(pairs) ==
               \E taken \in {n \in 0..Len(pairs) : n > 0 \/ n = Len(pairs)} :
                   last' = Call("All", 0, 0, SubSeq(pairs, 1, taken), NoError)
       IN  Yields(All(Self))
    /\ UNCHANGED <<CacheVars, built, touch>>

DoSize ==
    /\ ~Panicked(Self)
    /\ last' = Call("Size", 0, 0, Size(Self), NoError)
    /\ UNCHANGED <<CacheVars, built, touch>>

DoCapacity ==
    /\ ~Panicked(Self)
    /\ last' = Call("Capacity", 0, 0, Capacity(Self), NoError)
    /\ UNCHANGED <<CacheVars, built, touch>>

Next ==
    \/ \E key \in Keys : DoGet(key)
    \/ \E key \in Keys, value \in Values : DoPut(key, value)
    \/ \E key \in Keys : DoGetKeyFrequency(key)
    \/ DoAll
    \/ DoSize
    \/ DoCapacity

Spec == Init /\ [][Next]_vars

\* ------------------------------------------------------------ properties
\* What a caller can observe of the cache.
Has(k) == GetKeyFrequency(Self, k).err = NoError
Frequency(k) == GetKeyFrequency(Self, k).ret
ValueOf(k) == elem[items[k]].value
Present == {k \in Keys : Has(k)}

\* k was touched before j, and both have been touched equally often
Before(k, j) ==
    \E f \in 1..MaxFreq :
        \E a, b \in 1..Len(touch[f]) :
            a < b /\ touch[f][a] = k /\ touch[f][b] = j

\* the step is the call op(key)
Called(op, key) == last'.op = op /\ last'.key = key

\* C1: the size never exceeds the capacity, and the capacity stays the one the
\* cache was constructed with.
C1_CapacityBound ==
    /\ Size(Self) <= Capacity(Self)
    /\ Capacity(Self) = built

\* a Put into a full cache has evicted and left the cache full
C1_Witness ==
    /\ last.op = "Put"
    /\ last.evicted # {}
    /\ Size(Self) = Capacity(Self)
    /\ Capacity(Self) = MaxCap

\* C2: a key that a step removes from the cache had the minimum frequency of
\* all entries the cache held before the step, and no entry that was in the
\* cache before and after the step has a lower frequency than it had.
C2_EvictsMinFrequency ==
    [][\A k \in Keys :
          (Has(k) /\ ~Has(k)') =>
              /\ \A j \in Keys : Has(j) => Frequency(j) >= Frequency(k)
              /\ \A j \in Keys : (Has(j) /\ Has(j)') => Frequency(j)' >= Frequency(k)
      ]_vars

\* a Put has evicted an entry while an entry of higher frequency stayed
C2_Witness ==
    /\ last.op = "Put"
    /\ \E e \in last.evicted :
           \E j \in Present \ {last.key} : Frequency(j) > e[2]

\* C3: a key that a step removes from the cache was touched before every
\* other entry of the same frequency the cache held before the step (touches
\* are successful Gets and Puts; failed Gets, GetKeyFrequency and All do not
\* move a key in `touch`).
C3_EvictsLeastRecent ==
    [][\A k \in Keys :
          (Has(k) /\ ~Has(k)') =>
              \A j \in Keys \ {k} :
                  (Has(j) /\ Frequency(j) = Frequency(k)) => Before(k, j)
      ]_vars

\* a Put has evicted one of several entries that shared a frequency above 1
C3_Witness ==
    /\ last.op = "Put"
    /\ \E e \in last.evicted :
           /\ e[2] >= 2
           /\ \E j \in Present \ {last.key} : Frequency(j) = e[2]

\* C4: a Put of a key that is not in a cache of capacity >= 1 removes exactly
\* one key when the cache is full, and none when it is not; the new key is in
\* the cache afterwards, every other key stays, and the size is the capacity
\* (full) or one more than before (not full).
C4_PutNewKey ==
    [][\A key \in Keys :
          (Called("Put", key) /\ ~Has(key) /\ Capacity(Self) >= 1) =>
              /\ Has(key)'
              /\ Present' \subseteq Present \cup {key}
              /\ IF Size(Self) = Capacity(Self)
                 THEN /\ Cardinality(Present \ Present') = 1
                      /\ Size(Self)' = Capacity(Self)'
                 ELSE /\ Present \ Present' = {}
                      /\ Size(Self)' = Size(Self) + 1
      ]_vars

\* a Put of a new key has evicted from a full cache that keeps another entry
C4_Witness ==
    /\ last.op = "Put"
    /\ Cardinality(last.evicted) = 1
    /\ Frequency(last.key) = 1
    /\ Present \ {last.key} # {}

\* C5: for a key that is in the cache before and after a step, a successful
\* Get and a Put of that key add exactly 1 to its frequency, and no step
\* lowers its frequency.
C5_FrequencyCounts ==
    [][\A k \in Keys :
          (Has(k) /\ Has(k)') =>
              /\ (Called("Get", k) \/ Called("Put", k)) =>
                     Frequency(k)' = Frequency(k) + 1
              /\ Frequency(k)' >= Frequency(k)
      ]_vars

\* a Get has raised a frequency to the largest the model counts
C5_Witness ==
    /\ last.op = "Get"
    /\ last.err = NoError
    /\ Frequency(last.key) = MaxFreq

\* C6: right after Put(k, v) on a cache of capacity >= 1, Get(k) returns v
\* and no error (as long as the model still counts k's frequency).
C6_PutThenGet ==
    (last.op = "Put" /\ Capacity(Self) >= 1 /\ CanTouch(last.key)) =>
        /\ Get(Self, last.key).err = NoError
        /\ Get(Self, last.key).ret = last.value

\* a Put of a new key has evicted an entry, and a Put has overwritten a key
C6_Witness ==
    /\ last.op = "Put"
    /\ CanTouch(last.key)
    /\ \/ last.evicted # {}
       \/ Frequency(last.key) >= 2

\* C7: Get and GetKeyFrequency of a key that is not in the cache return
\* ErrKeyNotFound and change nothing of the cache.
C7_NotFound ==
    [][\A key \in Keys :
          ((Called("Get", key) \/ Called("GetKeyFrequency", key)) /\ ~Has(key)) =>
              /\ last'.err = ErrKeyNotFound
              /\ UNCHANGED CacheVars
      ]_vars

\* a Get has missed a key while the cache is full and holds other keys
C7_Witness ==
    /\ last.op = "Get"
    /\ last.err = ErrKeyNotFound
    /\ ~Has(last.key)
    /\ Size(Self) = Capacity(Self)
    /\ Size(Self) >= 1

\* C8: a full traversal of All yields every key in the cache exactly once
\* with its value, Size() pairs in all, in non-increasing frequency, and among
\* keys of equal frequency the more recently touched first.
C8_AllOrder ==
    LET pairs == All(Self)
    IN  /\ Len(pairs) = Size(Self)
        /\ {pairs[i][1] : i \in 1..Len(pairs)} = Present
        /\ \A i, j \in 1..Len(pairs) : pairs[i][1] = pairs[j][1] => i = j
        /\ \A i \in 1..Len(pairs) : pairs[i][2] = ValueOf(pairs[i][1])
        /\ \A i, j \in 1..Len(pairs) :
               i < j =>
                   /\ Frequency(pairs[i][1]) >= Frequency(pairs[j][1])
                   /\ Frequency(pairs[i][1]) = Frequency(pairs[j][1]) =>
                          Before(pairs[j][1], pairs[i][1])
        /\ (last.op = "All" /\ Len(last.ret) >= Size(Self)) => last.ret = pairs

\* All has been consumed to the end on a full cache whose entries share a
\* frequency above 1
C8_Witness ==
    /\ last.op = "All"
    /\ Len(last.ret) = MaxCap
    /\ \A i \in 1..Len(last.ret) : Frequency(last.ret[i][1]) = 2

\* C9: a cache constructed with capacity 0 stays empty: Size() is 0, a Put
\* changes nothing, Get and GetKeyFrequency return ErrKeyNotFound, and All
\* yields nothing.
C9_ZeroCapacity ==
    built = 0 =>
        /\ ~Panicked(Self)
        /\ Size(Self) = 0
        /\ \A key \in Keys, value \in Values : Put(Self, key, value) = Self
        /\ \A key \in Keys :
               /\ Get(Self, key).err = ErrKeyNotFound
               /\ GetKeyFrequency(Self, key).err = ErrKeyNotFound
        /\ All(Self) = <<>>
        /\ last.op \in {"Get", "GetKeyFrequency"} => last.err = ErrKeyNotFound
        /\ last.op = "All" => last.ret = <<>>

\* a Put has been made on a cache of capacity 0
C9_Witness ==
    /\ built = 0
    /\ last.op = "Put"

\* C10: a Put of a key that is in the cache stores the value, adds 1 to the
\* key's frequency, makes the key the first that All yields among the keys of
\* its new frequency, and leaves the key set and the size as they were.
C10_PutExistingKey ==
    [][\A key \in Keys :
          (Called("Put", key) /\ Has(key)) =>
              /\ Has(key)'
              /\ ValueOf(key)' = last'.value
              /\ Frequency(key)' = Frequency(key) + 1
              /\ LET First(after, pairs) ==
                         \E i \in 1..Len(pairs) :
                             /\ pairs[i][1] = key
                             /\ \A j \in 1..(i - 1) :
                                    GetKeyFrequency(after, pairs[j][1]).ret #
                                        GetKeyFrequency(after, key).ret
                 IN  First(Self', All(Self'))
              /\ Present' = Present
              /\ Size(Self)' = Size(Self)
      ]_vars

\* a Put has overwritten a key of a full cache and moved it behind another
\* key of the same new frequency
C10_Witness ==
    /\ last.op = "Put"
    /\ last.evicted = {}
    /\ Size(Self) = Capacity(Self)
    /\ Frequency(last.key) >= 2
    /\ \E j \in Present \ {last.key} : Frequency(j) = Frequency(last.key)

\* C11: a Put of a key that is not in a cache of capacity >= 1 creates the
\* entry with frequency 1, whatever frequency the key had when it was in the
\* cache before, and puts it at the tail of the frequency-1 bucket, so that
\* All yields it first among the entries of frequency 1.
C11_NewEntryFrequencyOne ==
    [][\A key \in Keys :
          (Called("Put", key) /\ ~Has(key) /\ Capacity(Self) >= 1) =>
              /\ Has(key)'
              /\ Frequency(key)' = 1
              /\ LET Newest(after, pairs) ==
                         /\ 1 \in DOMAIN after.frequencies
                         /\ ListTail(after.lists,
                                     after.bucket[after.frequencies[1]]) =
                                after.items[key]
                         /\ \E i \in 1..Len(pairs) :
                                /\ pairs[i][1] = key
                                /\ \A j \in 1..(i - 1) :
                                       GetKeyFrequency(after, pairs[j][1]).ret # 1
                 IN  Newest(Self', All(Self'))
      ]_vars

\* a Put has brought back, at frequency 1, a key that the call before had
\* evicted at a higher frequency
C11_Witness ==
    /\ last.op = "Put"
    /\ last.again
    /\ Has(last.key)
    /\ Frequency(last.key) = 1

\* The structure behind the interface.
\* the bucket nodes of the bucket list, from its head to its tail
Buckets == Chain(cache, CacheList)
\* the entry nodes of the bucket held by bucket node b, from head to tail
Entries(b) == Chain(lists, bucket[b])
\* the keys of the entries of the bucket registered under frequency f, from
\* its head to its tail (none when no bucket is registered under f)
KeysAt(f) ==
    IF f \in DOMAIN frequencies
    THEN LET KeysOf(nodes) == [i \in 1..Len(nodes) |-> elem[nodes[i]].key]
         IN  KeysOf(Entries(frequencies[f]))
    ELSE <<>>

\* the key evictLFU would remove: the key of the head entry of the head bucket
Victim == elem[ListHead(lists, bucket[ListHead(cache, CacheList)])].key

\* C12: All, consumed to the end or abandoned after any number of pairs,
\* GetKeyFrequency of a key in the cache, Size and Capacity change nothing of
\* the cache: no field of it, no map entry, no node link and no node value,
\* which hold the keys, values, frequencies, buckets and the places of the
\* entries in them; the entry an eviction would remove stays the same.
C12_ReadOnly ==
    [][(\/ last'.op \in {"All", "Size", "Capacity"}
        \/ last'.op = "GetKeyFrequency" /\ Has(last'.key))
           => /\ UNCHANGED CacheVars
              /\ size >= 1 => Victim' = Victim
      ]_vars

\* All has been abandoned before its end on a full cache, after it had
\* yielded a pair
C12_Witness ==
    /\ last.op = "All"
    /\ Len(last.ret) >= 1
    /\ Len(last.ret) < Size(Self)
    /\ Size(Self) = Capacity(Self)

\* the sum of t[i] over the sequence t
RECURSIVE SumSeq(_)
SumSeq(t) == IF t = <<>> THEN 0 ELSE Head(t) + SumSeq(Tail(t))
\* Size() of each bucket of the bucket list
BucketSizes == [i \in 1..Len(Buckets) |-> ListSize(lists, bucket[Buckets[i]])]

\* C13: the size counter is the number of keys in items and the sum of the
\* sizes of the buckets in the bucket list.
C13_SizeCounts ==
    /\ size = Cardinality(DOMAIN items)
    /\ size = SumSeq(BucketSizes)

\* a Put has evicted from a full cache whose entries are in different buckets
C13_Witness ==
    /\ last.op = "Put"
    /\ last.evicted # {}
    /\ size = MaxCap
    /\ Len(Buckets) >= 2

\* the frequencies of the entries held by bucket node b
FreqsIn(b) == {elem[n].freq : n \in SeqSet(Entries(b))}

\* C14: frequencies has an entry for f exactly when the bucket list has a
\* bucket holding entries of frequency f; the buckets of the map are the
\* buckets of the list, one per frequency, and none of them is empty.
C14_NoEmptyBucket ==
    /\ Range(frequencies) = SeqSet(Buckets)
    /\ \A f, g \in DOMAIN frequencies : frequencies[f] = frequencies[g] => f = g
    /\ \A b \in SeqSet(Buckets) :
           /\ ListSize(lists, bucket[b]) > 0
           /\ Entries(b) # <<>>
    /\ \A f \in 1..(MaxFreq + 1) :
           f \in DOMAIN frequencies <=> (\E b \in SeqSet(Buckets) : f \in FreqsIn(b))

\* a Get has taken the last entry out of a bucket while another bucket stays
C14_Witness ==
    /\ last.op = "Get"
    /\ last.err = NoError
    /\ Frequency(last.key) >= 2
    /\ (Frequency(last.key) - 1) \notin DOMAIN frequencies
    /\ Len(Buckets) >= 2

\* the frequency under which bucket node b is registered in frequencies
FreqOf(b) == CHOOSE f \in DOMAIN frequencies : frequencies[f] = b

\* C15: read from head to tail, the buckets of the bucket list are registered
\* under strictly increasing frequencies, so no two of them under the same
\* one, and the head bucket is the bucket of the least frequency in the cache.
C15_BucketsAscending ==
    /\ \A i \in 1..Len(Buckets) : Buckets[i] \in Range(frequencies)
    /\ \A i, j \in 1..Len(Buckets) :
           i < j => FreqOf(Buckets[i]) < FreqOf(Buckets[j])
    /\ Present # {} =>
           /\ ListHead(cache, CacheList) = Buckets[1]
           /\ \A k \in Present : FreqOf(Buckets[1]) <= Frequency(k)
           /\ \E k \in Present : FreqOf(Buckets[1]) = Frequency(k)

\* a Get has created a bucket that had to go before the bucket of a higher
\* frequency
C15_Witness ==
    /\ last.op = "Get"
    /\ last.err = NoError
    /\ Len(Buckets) >= 2
    /\ Entries(frequencies[Frequency(last.key)]) = <<items[last.key]>>
    /\ \E k \in Present : Frequency(k) > Frequency(last.key)

\* the positions <<i, j>> at which entry node n is held: j-th entry of the
\* i-th bucket
Places(n) ==
    {p \in (1..Len(Buckets)) \X (1..NumKeys) :
        p[2] <= Len(Entries(Buckets[p[1]])) /\ Entries(Buckets[p[1]])[p[2]] = n}

\* C16: every entry of items is held at exactly one place of exactly one
\* bucket, its freq is the frequency that bucket is registered under and is at
\* least 1, and the buckets hold nothing but the entries of items.
C16_EntryInItsBucket ==
    /\ \A k \in DOMAIN items :
           /\ Cardinality(Places(items[k])) = 1
           /\ \A p \in Places(items[k]) :
                  /\ Buckets[p[1]] \in Range(frequencies)
                  /\ elem[items[k]].freq = FreqOf(Buckets[p[1]])
           /\ elem[items[k]].freq >= 1
           /\ elem[items[k]].key = k
    /\ \A i \in 1..Len(Buckets) :
           SeqSet(Entries(Buckets[i])) \subseteq Range(items)

\* a Get has moved an entry into a bucket of a frequency above 1 that holds
\* another entry
C16_Witness ==
    /\ last.op = "Get"
    /\ last.err = NoError
    /\ \E p \in Places(items[last.key]) :
           /\ Len(Entries(Buckets[p[1]])) >= 2
           /\ FreqOf(Buckets[p[1]]) >= 2

\* C17: from head to tail, the entries of each bucket are in the order of
\* their last touch, the least recently touched at the head: the keys of the
\* bucket of frequency f are the keys touched f times, in the order of those
\* touches.
C17_BucketsByRecency ==
    \A f \in 1..MaxFreq : KeysAt(f) = touch[f]

\* after a Get, a bucket of a frequency above 1 holds two entries in an order
\* that is not the order of their keys
C17_Witness ==
    /\ last.op = "Get"
    /\ last.err = NoError
    /\ \E f \in 2..MaxFreq :
           /\ Len(KeysAt(f)) >= 2
           /\ KeysAt(f)[1] > KeysAt(f)[2]

\* C18: no call panics, for any capacity >= 0.  What the calls rely on holds
\* in every state: a cache that holds an entry has a head bucket with a head
\* entry (evictLFU), and the frequency of every entry is registered in
\* frequencies (the bucket incrementFrequency pops from, and the anchor
\* frequencies[f-1] of the PushAfter that links a new bucket for f).
C18_NoPanic ==
    /\ ~panicked
    /\ ~Panicked(Self)
    /\ size >= 1 =>
           /\ ListHead(cache, CacheList) # NIL
           /\ ListHead(lists, bucket[ListHead(cache, CacheList)]) # NIL
    /\ (capacity >= 1 /\ size = capacity) => size >= 1
    /\ \A k \in DOMAIN items :
           Lookup(frequencies, elem[items[k]].freq) # NIL

\* a Get has linked a new bucket for a frequency above 1 behind the bucket it
\* emptied, which is gone
C18_Witness ==
    /\ ~panicked
    /\ last.op = "Get"
    /\ last.err = NoError
    /\ Frequency(last.key) >= 2
    /\ KeysAt(Frequency(last.key)) = <<last.key>>
    /\ (Frequency(last.key) - 1) \notin DOMAIN frequencies

\* ------------------------------------------------------- the list alone
\* The list package used on its own: `lists` is the heap of NumKeys nodes and
\* NumLists lists made by New, and `last` the call made last.  The fields of
\* the cache stay those of a cache that is not used.
NumLists == 2
Nodes == 1..NumKeys
Lists == 1..NumLists
NoList == 0

\* the lists whose head reaches node n by forward links
Holders(m, n) == {l \in Lists : n \in SeqSet(Chain(m, l))}
\* a list n is a member of (NoList when it is a member of none)
HolderOf(m, n) ==
    IF Holders(m, n) = {} THEN NoList ELSE CHOOSE l \in Holders(m, n) : TRUE

\* A call on list l as `last` records it: the method, its arguments, and the
\* list the pushed node was a member of when the call was made.
ListCall(op, l, after, node, prior) ==
    [op |-> op, list |-> l, after |-> after, node |-> node, prior |-> prior]

RECURSIVE NewLists(_, _)
NewLists(m, l) == IF l = 0 THEN m ELSE ListNew(NewLists(m, l - 1), l)

ListInit ==
    LET c == New(<<0>>)
    IN  /\ capacity = c.capacity
        /\ size = c.size
        /\ items = c.items
        /\ frequencies = c.frequencies
        /\ cache = c.cache
        /\ bucket = c.bucket
        /\ elem = c.elem
        /\ panicked = FALSE
        /\ built = 0
        /\ touch = [f \in 1..MaxFreq |-> <<>>]
        /\ lists = NewLists(Mem(NumKeys, NumLists), NumLists)
        /\ last = ListCall("New", NoList, NIL, NIL, NoList)

CacheUnused ==
    UNCHANGED <<capacity, size, items, frequencies, cache, bucket, elem,
                panicked, built, touch>>

\* the nodes that are a member of no list
Free(m) == {n \in Nodes : Holders(m, n) = {}}
\* what a caller passes for a node: a node or nil
NodeArgs == Nodes \cup {NIL}

\* calls are made as long as no call has panicked and no call has pushed a
\* node that was a member of a list
InUse == ~lists.panic /\ last.prior = NoList

DoPushBack(l, node) ==
    /\ InUse
    /\ lists' = PushBack(lists, l, node)
    /\ last' = ListCall("PushBack", l, NIL, node, HolderOf(lists, node))
    /\ CacheUnused

DoPushFront(l, node) ==
    /\ InUse
    /\ lists' = PushFront(lists, l, node)
    /\ last' = ListCall("PushFront", l, NIL, node, HolderOf(lists, node))
    /\ CacheUnused

DoPushAfter(l, after, node) ==
    /\ InUse
    /\ after \in SeqSet(Chain(lists, l)) \cup Free(lists) \cup {NIL}
    /\ after = NIL \/ after # node
    /\ lists' = PushAfter(lists, l, after, node)
    /\ last' = ListCall("PushAfter", l, after, node, HolderOf(lists, node))
    /\ CacheUnused

DoPop(l, node) ==
    /\ InUse
    /\ node \in SeqSet(Chain(lists, l)) \cup Free(lists) \cup {NIL}
    /\ lists' = Pop(lists, l, node)
    /\ last' = ListCall("Pop", l, NIL, node, NoList)
    /\ CacheUnused

ListNext ==
    \/ \E l \in Lists, node \in NodeArgs : DoPushBack(l, node)
    \/ \E l \in Lists, node \in NodeArgs : DoPushFront(l, node)
    \/ \E l \in Lists, after \in NodeArgs, node \in NodeArgs :
           DoPushAfter(l, after, node)
    \/ \E l \in Lists, node \in NodeArgs : DoPop(l, node)

ListSpec == ListInit /\ [][ListNext]_vars

\* t read backwards
Reverse(t) == [i \in 1..Len(t) |-> t[Len(t) + 1 - i]]

\* List l of heap m is a valid doubly linked chain: from the dummy head the
\* forward links lead through nodes, each once, to the dummy tail of l, the
\* backward link of each cell on the way points at the cell before it, and
\* Size() is the number of nodes on the way, counted from Head() forwards and
\* from Tail() backwards.
ListValid(m, l) ==
    LET Linked2(fw, full) ==
            /\ SeqSet(fw) \subseteq 1..m.nodes
            /\ \A i, j \in 1..Len(fw) : fw[i] = fw[j] => i = j
            /\ \A i \in 1..(Len(full) - 1) :
                   /\ m.next[full[i]] = full[i + 1]
                   /\ m.prev[full[i + 1]] = full[i]
            /\ ListSize(m, l) = Len(fw)
            /\ FromTail(m, l) = Reverse(fw)
            /\ ListHead(m, l) = (IF fw = <<>> THEN NIL ELSE fw[1])
            /\ ListTail(m, l) = (IF fw = <<>> THEN NIL ELSE fw[Len(fw)])
        Walk(fw) == Linked2(fw, <<DummyHead(m, l)>> \o fw \o <<DummyTail(m, l)>>)
    IN  Walk(Chain(m, l))

\* C19: after PushBack, PushFront or PushAfter of a node that was a member
\* of a list, the node is a member of the list it was pushed to and of no
\* other, and the list it was a member of is a valid chain whose Size() is
\* the number of nodes reachable from its head.
C19_PushDetaches ==
    (/\ last.op \in {"PushBack", "PushFront", "PushAfter"}
     /\ last.prior # NoList
     /\ ~lists.panic) =>
        /\ Holders(lists, last.node) = {last.list}
        /\ ListValid(lists, last.prior)

\* C20: as long as every pushed node was a member of no list, and every
\* anchor and every popped node a member of the list of the call, each list
\* is a valid doubly linked chain.
C20_ChainValid ==
    (~lists.panic /\ last.prior = NoList) =>
        \A l \in Lists : ListValid(lists, l)

\* PushAfter has put a node between two nodes of a list
C20_Witness ==
    /\ last.op = "PushAfter"
    /\ last.prior = NoList
    /\ Len(Chain(lists, last.list)) = NumKeys
    /\ Chain(lists, last.list)[1] = last.after
    /\ Chain(lists, last.list)[2] = last.node

\* the sequence t with n placed right behind its element a
PlacedAfter(t, a, n) ==
    LET Split(i) == SubSeq(t, 1, i) \o <<n>> \o SubSeq(t, i + 1, Len(t))
    IN  Split(CHOOSE i \in 1..Len(t) : t[i] = a)

\* what a call makes of the sequence t of the nodes of its list
Reference(call, t) ==
    CASE call.op = "PushBack"  -> Append(t, call.node)
      [] call.op = "PushFront" -> <<call.node>> \o t
      [] call.op = "PushAfter" -> PlacedAfter(t, call.after, call.node)
      [] call.op = "Pop"       -> Without(t, {call.node})
      [] OTHER                 -> t

C22_PanicLeavesListAsItWas ==
    [][lists'.panic =>
          /\ lists'.next = lists.next
          /\ lists'.prev = lists.prev
          /\ lists'.size = lists.size
      ]_vars

Threads == {"a", "b"}

\* The frame of a thread: where its call stands (pc), the call and its
\* arguments, the entry node the lookup returned, and whether the other
\* thread has written to the cache since the call began.  A thread that is
\* in no call has the frame Idle.
Idle ==
    [pc |-> "idle", op |-> "none", key |-> 0, value |-> 0, node |-> NIL,
     stale |-> FALSE]

\* the value a thread passes to Put: each thread writes a value of its own
Writes(t) == IF t = "a" THEN 1 ELSE 2

\* the entry nodes the frames of the threads other than t point at
Held(t) == {last[u].node : u \in Threads \ {t}} \ {NIL}

\* what is left of c when the nodes in roots are referenced from outside it
Keeps(c, roots) ==
    LET Kept(d) ==
            [d EXCEPT !.elem = [n \in 1..NumKeys |->
                                   IF n \in roots THEN c.elem[n] ELSE @[n]]]
    IN  Kept(Collect(c))

\* the receiver after a step of thread t that left it as c
ConcBecomes(c, t) == Settled(IF Panicked(c) THEN c ELSE Keeps(c, Held(t)))

\* the frames after a step of thread t that wrote to the cache and left the
\* frame of t as frame
Wrote(t, frame) ==
    [u \in Threads |->
        IF u = t THEN frame
        ELSE IF last[u].pc # "idle" THEN [last[u] EXCEPT !.stale = TRUE]
        ELSE last[u]]

\* no other thread is in a call on key
Apart(t, key) ==
    \A u \in Threads \ {t} : last[u].pc = "idle" \/ last[u].key # key

ConcInit ==
    \E args \in CapArgs :
        LET c == New(args)
        IN  /\ capacity = c.capacity
            /\ size = c.size
            /\ items = c.items
            /\ frequencies = c.frequencies
            /\ cache = c.cache
            /\ bucket = c.bucket
            /\ lists = c.lists
            /\ elem = c.elem
            /\ panicked = Panicked(c)
            /\ built = args[1]
            /\ last = [t \in Threads |-> Idle]
            /\ touch = [f \in 1..MaxFreq |-> <<>>]

\* what serialized calls keep: no panic, and Size() within Capacity()
Sound == ~panicked /\ Size(Self) <= Capacity(Self)

\* (mutation) a Put that never finds the cache full
PutBranch_NeverFull(c, key) ==
    IF c.capacity = 0 THEN "idle"
    ELSE IF key \in DOMAIN c.items THEN "update"
    ELSE "add"

\* Put up to its first call: the step the call goes on with
PutBranch(c, key) ==
    IF c.capacity = 0 THEN "idle"
    ELSE IF key \in DOMAIN c.items THEN "update"
    ELSE IF c.size = c.capacity THEN "evict"
    ELSE "add"

\* Put: if l.capacity == 0; l.items[key]; if l.size == l.capacity
PutEnter(t, key) ==
    /\ Sound
    /\ last[t].pc = "idle"
    /\ CanTouch(key)
    /\ Apart(t, key)
    /\ LET Goes(pc) ==
               last' = [last EXCEPT ![t] =
                           IF pc = "idle"
                           THEN Idle
                           ELSE [pc |-> pc, op |-> "Put", key |-> key,
                                 value |-> Writes(t),
                                 node |-> IF pc = "update" THEN items[key] ELSE NIL,
                                 stale |-> FALSE]]
       IN  Goes(PutBranch(Self, key))
    /\ UNCHANGED <<CacheVars, built, touch>>

\* Put: elementNode.Value.value = value; l.incrementFrequency(elementNode)
PutUpdate(t) ==
    /\ ~panicked
    /\ last[t].pc = "update"
    /\ ConcBecomes(incrementFrequency(
                       [Self EXCEPT !.elem[last[t].node].value = last[t].value],
                       last[t].node), t)
    /\ last' = Wrote(t, Idle)
    /\ UNCHANGED <<built, touch>>

\* Put: l.evictLFU()
PutEvict(t) ==
    /\ ~panicked
    /\ last[t].pc = "evict"
    /\ ConcBecomes(evictLFU(Self), t)
    /\ last' = Wrote(t, [last[t] EXCEPT !.pc = "add"])
    /\ UNCHANGED <<built, touch>>

\* Put: l.addNewEntry(key, value)
PutAdd(t) ==
    /\ ~panicked
    /\ last[t].pc = "add"
    /\ ConcBecomes(addNewEntry(Self, last[t].key, last[t].value), t)
    /\ last' = Wrote(t, Idle)
    /\ UNCHANGED <<built, touch>>

\* Get: elementNode, ok := l.items[key]; if !ok return
GetEnter(t, key) ==
    /\ Sound
    /\ last[t].pc = "idle"
    /\ CanTouch(key)
    /\ Apart(t, key)
    /\ last' = [last EXCEPT ![t] =
                    IF key \in DOMAIN items
                    THEN [pc |-> "bump", op |-> "Get", key |-> key, value |-> 0,
                          node |-> items[key], stale |-> FALSE]
                    ELSE Idle]
    /\ UNCHANGED <<CacheVars, built, touch>>

\* Get: l.incrementFrequency(elementNode); return
GetBump(t) ==
    /\ ~panicked
    /\ last[t].pc = "bump"
    /\ ConcBecomes(incrementFrequency(Self, last[t].node), t)
    /\ last' = Wrote(t, Idle)
    /\ UNCHANGED <<built, touch>>

ConcNext ==
    \E t \in Threads :
        \/ \E key \in Keys : PutEnter(t, key)
        \/ PutUpdate(t)
        \/ PutEvict(t)
        \/ PutAdd(t)
        \/ \E key \in Keys : GetEnter(t, key)
        \/ GetBump(t)

ConcSpec == ConcInit /\ [][ConcNext]_vars

\* C24: with the steps of the calls of two threads interleaved, Size() goes
\* above Capacity(), or a call panics, and the step that does it is a step
\* of a call during which the other thread has written to the cache: no
\* lock keeps that thread out.
C24_BrokenByInterleaving ==
    [][(Sound /\ ~Sound') =>
          \E t \in Threads : last[t].stale /\ last'[t] # last[t]
      ]_vars

\* both threads have returned, nothing has panicked, and the cache holds
\* one entry more than Capacity()
C24_Witness ==
    /\ ~panicked
    /\ Capacity(Self) >= 1
    /\ Size(Self) = Capacity(Self) + 1
    /\ Cardinality(DOMAIN items) = Size(Self)
    /\ \A t \in Threads : last[t] = Idle

====

